---- MODULE Spec2Model ----
(***************************************************************************)
(* Per-user PDF queue, quiet-period timer and batch run of app.py.         *)
(*                                                                         *)
(* handle_document and process_user_pdfs are coroutines: each action below *)
(* is one stretch of code between two suspension points (await), so the    *)
(* interleavings of the model are the interleavings asyncio tasks have.    *)
(* A request is one webhook call: asyncio.run(process_update(update))      *)
(* runs handle_document and then tears its event loop down, cancelling the *)
(* tasks still pending in it.  The relative timing of the 3 second sleep   *)
(* and of the tear down is left open.                                      *)
(*                                                                         *)
(* Every request carries a file name of its own, so the path of an item is *)
(* the number of the request that downloaded it.                           *)
(***************************************************************************)
EXTENDS Integers, Sequences, FiniteSets, TLC

\* ---------------------------------------------------------------- bounds
NUsers == 2
MaxReq == 2

\* ------------------------------------------------------------- constants
MAX_PDFS_PER_USER == 5
MAX_FILE_SIZE_MB == 10

Users == 1..NUsers
Reqs == 1..MaxReq
\* Request 0 stands for the last of MAX_PDFS_PER_USER - 1 earlier admissions
\* of user 1 (see InitBurst); timer t is the task created by request t.
Timers == 0..MaxReq
Earlier == {0 - k : k \in 1..(MAX_PDFS_PER_USER - 1)}
Items == Earlier \cup Reqs
NoTimer == 0 - 1

\* user_pdf_queues maps a user to a list OBJECT; process_user_pdfs keeps a
\* reference to it.  List u is the one defaultdict(list) makes for user u,
\* list NUsers + 1 + t is the one the cleanup of run t creates.
Lists == 1..(NUsers + 1 + MaxReq)
FreshList(t) == NUsers + 1 + t

SizeLimit == MAX_FILE_SIZE_MB * 1024 * 1024

\* What a submission looks like to the handler and to the extractor and the
\* summarizer: content "ok" extracts and summarizes, "notext" extracts
\* nothing, "sumfail" extracts text but every summarizer call raises.
Docs ==
    { [pdf |-> TRUE,  size |-> SizeLimit,     content |-> "ok"],
      [pdf |-> TRUE,  size |-> SizeLimit,     content |-> "notext"],
      [pdf |-> TRUE,  size |-> SizeLimit,     content |-> "sumfail"],
      [pdf |-> FALSE, size |-> SizeLimit,     content |-> "ok"],
      [pdf |-> TRUE,  size |-> SizeLimit + 1, content |-> "ok"] }
NoDoc == [pdf |-> TRUE, size |-> 0, content |-> "ok"]

VARIABLES
    hpc,              \* request -> where handle_document is suspended
    req,              \* request -> [user, doc] of the update
    heap,             \* list object -> its contents
    user_pdf_queues,  \* user -> list object
    user_timers,      \* user -> timer task, or NoTimer when the key is absent
    tpc,              \* timer task -> where it is suspended
    tcancel,          \* timer task -> cancel() was called, not yet delivered
    tlist,            \* timer task -> pdf_paths (a list object)
    tidx,             \* timer task -> paths taken from the list iterator
    tsum,             \* timer task -> summaries
    files,            \* item files present in ./tmp
    audio,            \* user -> ./tmp/<user>_summary.mp3 exists
    \* history
    blen,             \* timer task -> len(pdf_paths) when its run started
    outcome,          \* timer task -> "none", "success" (voice sent), "failure" (line 137)
    procs,            \* item -> times handed to extract_text_from_pdf (2: twice or more)
    admitted          \* user -> items appended to the user's queue, in order

hvars == <<hpc, req>>
qvars == <<heap, user_pdf_queues, user_timers>>
tvars == <<tpc, tcancel, tlist, tidx, tsum>>
fvars == <<files, audio>>
gvars == <<blen, outcome, procs, admitted>>
vars == <<hvars, qvars, tvars, fvars, gvars>>

ItemUser(i) == IF i \in Earlier THEN 1 ELSE req[i].user
ItemDoc(i) == IF i \in Earlier THEN [pdf |-> TRUE, size |-> SizeLimit, content |-> "ok"]
              ELSE req[i].doc
TimerUser(t) == IF t = 0 THEN 1 ELSE req[t].user

Range(s) == {s[k] : k \in 1..Len(s)}

\* --------------------------------------------------------- pure functions
\* extract_text_from_pdf: the text of the file, "" when it cannot be read
\* (the exception is caught) or has no text.  TRUE when text.strip() holds.
extract_text_from_pdf(i, present) ==
    i \in present /\ ItemDoc(i).content # "notext"

\* summarize_text: the header line followed by the summaries of the chunks
\* whose summarizer call did not raise.
summarize_text(i) ==
    <<"Oil Market Trader Summary:">> \o
        (IF ItemDoc(i).content = "sumfail" THEN <<>> ELSE <<i>>)

\* The capacity check with > in place of >=.
Rejected_OffByOne(u, d, q) ==
    \/ ~d.pdf
    \/ d.size > MAX_FILE_SIZE_MB * 1024 * 1024
    \/ Len(q) > MAX_PDFS_PER_USER

\* Lines 145-153: the three rejections of handle_document.
Rejected(u, d, q) ==
    \/ ~d.pdf
    \/ d.size > MAX_FILE_SIZE_MB * 1024 * 1024
    \/ Len(q) >= MAX_PDFS_PER_USER

\* ------------------------------------------------------------------- Init
InitCommon ==
    /\ hpc = [r \in Reqs |-> "new"]
    /\ req = [r \in Reqs |-> [user |-> 1, doc |-> NoDoc]]
    /\ user_pdf_queues = [u \in Users |-> u]
    /\ tcancel = [t \in Timers |-> FALSE]
    /\ tlist = [t \in Timers |-> 1]
    /\ tidx = [t \in Timers |-> 0]
    /\ tsum = [t \in Timers |-> <<>>]
    /\ audio = [u \in Users |-> FALSE]
    /\ blen = [t \in Timers |-> 0]
    /\ outcome = [t \in Timers |-> "none"]
    /\ procs = [i \in Items |-> 0]

\* A process that has just started.
InitFresh ==
    /\ InitCommon
    /\ heap = [l \in Lists |-> <<>>]
    /\ user_timers = [u \in Users |-> NoTimer]
    /\ tpc = [t \in Timers |-> "none"]
    /\ files = {}
    /\ admitted = [u \in Users |-> <<>>]

EarlierSeq == [k \in 1..(MAX_PDFS_PER_USER - 1) |-> k - MAX_PDFS_PER_USER]

\* User 1 has sent MAX_PDFS_PER_USER - 1 documents one after the other; the
\* handler of the last one (request 0) has just returned: its timer task is
\* armed and its event loop is not torn down yet.
InitBurst ==
    /\ InitCommon
    /\ heap = [l \in Lists |-> IF l = 1 THEN EarlierSeq ELSE <<>>]
    /\ user_timers = [u \in Users |-> IF u = 1 THEN 0 ELSE NoTimer]
    /\ tpc = [t \in Timers |-> IF t = 0 THEN "sleep" ELSE "none"]
    /\ files = Earlier
    /\ admitted = [u \in Users |-> IF u = 1 THEN EarlierSeq ELSE <<>>]

Init == InitFresh \/ InitBurst

\* ---------------------------------------------------------- handle_document
Live(t) == tpc[t] \notin {"none", "done", "aborted"}

\* task.cancel() wakes the task at the next iteration of the event loop, and
\* asyncio.run waits for the tasks it cancels: a pending CancelledError is
\* delivered before any other coroutine moves on.
Quiet == \A t \in Timers : ~tcancel[t]

\* The updates that arrive: after the burst of InitBurst, further valid
\* documents of the same user; otherwise any document of any user.
Burst == admitted[1] # <<>> /\ admitted[1][1] \in Earlier
Updates ==
    IF Burst THEN {[user |-> 1, doc |-> d] : d \in {x \in Docs : x.pdf /\ x.size <= SizeLimit /\ x.content = "ok"}}
    ELSE {[user |-> u, doc |-> d] : u \in Users, d \in Docs}

\* Lines 140-154: the update of request r arrives; the checks run up to the
\* first await (a rejection's reply_text, or get_file).
HandleDocumentCheck(r) ==
    /\ Quiet
    /\ hpc[r] = "new"
    /\ \A q \in Reqs : q < r => hpc[q] # "new"
    /\ \E up \in Updates :
        /\ req' = [req EXCEPT ![r] = up]
        /\ hpc' = [hpc EXCEPT ![r] =
                IF Rejected(up.user, up.doc, heap[user_pdf_queues[up.user]])
                THEN "reject" ELSE "fetch"]
    /\ UNCHANGED <<qvars, tvars, fvars, gvars>>

\* Lines 146-147, 149-150, 152-153: the reply of a rejection is sent (or
\* raises); the handler returns.
HandleDocumentReject(r) ==
    /\ Quiet
    /\ hpc[r] = "reject"
    /\ hpc' = [hpc EXCEPT ![r] = "rejected"]
    /\ UNCHANGED <<req, qvars, tvars, fvars, gvars>>

\* The append with one list for all users instead of one list per user.
HandleDocumentAppend_Shared(r) ==
    /\ Quiet
    /\ hpc[r] = "fetch"
    /\ LET u == req[r].user IN
        /\ files' = files \cup {r}
        /\ heap' = [heap EXCEPT ![user_pdf_queues[1]] = Append(@, r)]
        /\ admitted' = [admitted EXCEPT ![u] = Append(@, r)]
    /\ hpc' = [hpc EXCEPT ![r] = "reply"]
    /\ UNCHANGED <<req, user_pdf_queues, user_timers, tvars, audio, blen, outcome, procs>>

\* Lines 154-160: get_file and download_to_drive have completed; the path is
\* appended to the list the user's key is bound to now, up to the await of
\* reply_text.
HandleDocumentAppend(r) ==
    /\ Quiet
    /\ hpc[r] = "fetch"
    /\ LET u == req[r].user IN
        /\ files' = files \cup {r}
        /\ heap' = [heap EXCEPT ![user_pdf_queues[u]] = Append(@, r)]
        /\ admitted' = [admitted EXCEPT ![u] = Append(@, r)]
    /\ hpc' = [hpc EXCEPT ![r] = "reply"]
    /\ UNCHANGED <<req, user_pdf_queues, user_timers, tvars, audio, blen, outcome, procs>>

\* Lines 154, 157: get_file or download_to_drive raises; nothing is queued.
HandleDocumentFetchError(r) ==
    /\ Quiet
    /\ hpc[r] = "fetch"
    /\ hpc' = [hpc EXCEPT ![r] = "done"]
    /\ UNCHANGED <<req, qvars, tvars, fvars, gvars>>

\* The re-arm without the cancel of lines 162-164.
HandleDocumentArm_NoCancel(r) ==
    /\ Quiet
    /\ hpc[r] = "reply"
    /\ user_timers' = [user_timers EXCEPT ![req[r].user] = r]
    /\ tpc' = [tpc EXCEPT ![r] = "sleep"]
    /\ hpc' = [hpc EXCEPT ![r] = "done"]
    /\ UNCHANGED <<req, heap, user_pdf_queues, tcancel, tlist, tidx, tsum, fvars, gvars>>

\* Lines 161-173: reply_text has returned; cancel the task under the user's
\* key if there is one, create the new timer task and store it.
HandleDocumentArm(r) ==
    /\ Quiet
    /\ hpc[r] = "reply"
    /\ LET u == req[r].user
           old == user_timers[u] IN
        /\ tcancel' = [t \in Timers |-> tcancel[t] \/ (t = old /\ Live(old))]
        /\ user_timers' = [user_timers EXCEPT ![u] = r]
    /\ tpc' = [tpc EXCEPT ![r] = "sleep"]
    /\ hpc' = [hpc EXCEPT ![r] = "done"]
    /\ UNCHANGED <<req, heap, user_pdf_queues, tlist, tidx, tsum, fvars, gvars>>

\* Line 160: reply_text raises; the item stays queued and no timer is armed.
HandleDocumentReplyError(r) ==
    /\ Quiet
    /\ hpc[r] = "reply"
    /\ hpc' = [hpc EXCEPT ![r] = "done"]
    /\ UNCHANGED <<req, qvars, tvars, fvars, gvars>>

\* Lines 197-203, webhook: asyncio.run returns once process_update has, and
\* cancels the tasks still pending in its event loop: the timer task that
\* the request's handler created.
webhook(r) ==
    /\ r \in Reqs => hpc[r] = "done"
    /\ Live(r)
    /\ Quiet
    /\ tcancel' = [tcancel EXCEPT ![r] = TRUE]
    /\ UNCHANGED <<hvars, qvars, tpc, tlist, tidx, tsum, fvars, gvars>>

\* -------------------------------------------------------- process_user_pdfs
\* The cleanup when it removes only the paths the loop has reached.
Cleanup_ProcessedOnly(t) ==
    /\ files' = files \ {heap[tlist[t]][k] : k \in 1..tidx[t]}
    /\ user_pdf_queues' = [user_pdf_queues EXCEPT ![TimerUser(t)] = FreshList(t)]
    /\ user_timers' = [user_timers EXCEPT ![TimerUser(t)] = NoTimer]

\* Lines 110-118, the finally block: remove every path of the list, bind the
\* user's key to a new empty list, pop the user's timer.
Cleanup(t) ==
    /\ files' = files \ Range(heap[tlist[t]])
    /\ user_pdf_queues' = [user_pdf_queues EXCEPT ![TimerUser(t)] = FreshList(t)]
    /\ user_timers' = [user_timers EXCEPT ![TimerUser(t)] = NoTimer]

\* The task is over: its frame is gone.
Finish(t, end) ==
    /\ tpc' = [tpc EXCEPT ![t] = end]
    /\ tcancel' = [tcancel EXCEPT ![t] = FALSE]
    /\ tlist' = [tlist EXCEPT ![t] = 1]
    /\ tidx' = [tidx EXCEPT ![t] = 0]
    /\ tsum' = [tsum EXCEPT ![t] = <<>>]
    /\ blen' = [blen EXCEPT ![t] = 0]

\* Line 98 and lines 110-123, 137: the for statement asks the list iterator
\* for the next path; when there is none the finally block runs and the
\* outcome is chosen by `if summaries`.
LoopNext(t, sums) ==
    /\ tsum' = [tsum EXCEPT ![t] = sums]
    /\ IF tidx[t] < Len(heap[tlist[t]])
       THEN /\ tidx' = [tidx EXCEPT ![t] = @ + 1]
            /\ tpc' = [tpc EXCEPT ![t] = "extracting"]
            /\ UNCHANGED <<files, user_pdf_queues, user_timers>>
       ELSE /\ Cleanup(t)
            /\ tpc' = [tpc EXCEPT ![t] = IF sums # <<>> THEN "generating" ELSE "failing"]
            /\ UNCHANGED tidx

\* Lines 166-170 and 93-97: the sleep is over; process_user_pdfs takes the
\* user's list and sends the "Processing" message.
TimerFire(t) ==
    /\ tpc[t] = "sleep"
    /\ Quiet
    /\ tpc' = [tpc EXCEPT ![t] = "processing"]
    /\ tlist' = [tlist EXCEPT ![t] = user_pdf_queues[TimerUser(t)]]
    /\ blen' = [blen EXCEPT ![t] = Len(heap[user_pdf_queues[TimerUser(t)]])]
    /\ UNCHANGED <<hvars, qvars, tcancel, tidx, tsum, fvars, outcome, procs, admitted>>

\* Lines 97-98 and 109: after the "Processing" or the "No text" message.
ProcessLoop(t) ==
    /\ tpc[t] \in {"processing", "notext"}
    /\ Quiet
    /\ LoopNext(t, tsum[t])
    /\ UNCHANGED <<hvars, heap, tcancel, tlist, audio, gvars>>

\* The extraction when a path without text throws the summaries collected so
\* far away.
ProcessExtract_DropSummaries(t) ==
    /\ tpc[t] = "extracting"
    /\ Quiet
    /\ LET i == heap[tlist[t]][tidx[t]] IN
        /\ procs' = [procs EXCEPT ![i] = IF @ = 0 THEN 1 ELSE 2]
        /\ tpc' = [tpc EXCEPT ![t] =
                IF extract_text_from_pdf(i, files) THEN "summarizing" ELSE "notext"]
        /\ tsum' = [tsum EXCEPT ![t] =
                IF extract_text_from_pdf(i, files) THEN @ ELSE <<>>]
    /\ UNCHANGED <<hvars, qvars, tcancel, tlist, tidx, fvars, blen, outcome, admitted>>

\* Lines 100-104, 107-109: extract the text of the current path.
ProcessExtract(t) ==
    /\ tpc[t] = "extracting"
    /\ Quiet
    /\ LET i == heap[tlist[t]][tidx[t]] IN
        /\ procs' = [procs EXCEPT ![i] = IF @ = 0 THEN 1 ELSE 2]
        /\ tpc' = [tpc EXCEPT ![t] =
                IF extract_text_from_pdf(i, files) THEN "summarizing" ELSE "notext"]
    /\ UNCHANGED <<hvars, qvars, tcancel, tlist, tidx, tsum, fvars, blen, outcome, admitted>>

\* Lines 104-106 and 98: summarize, append the summary, next path.
ProcessSummarize(t) ==
    /\ tpc[t] = "summarizing"
    /\ Quiet
    /\ LoopNext(t, Append(tsum[t], summarize_text(heap[tlist[t]][tidx[t]])))
    /\ UNCHANGED <<hvars, heap, tcancel, tlist, audio, gvars>>

\* Lines 123-128 and 130-135: text_to_speech writes the audio file unless
\* gTTS raises; open() raises when there is no such file, and the inner
\* finally then fails to remove it.
ProcessSynthesize(t) ==
    /\ tpc[t] = "generating"
    /\ Quiet
    /\ \E saved \in BOOLEAN :
        /\ audio' = [audio EXCEPT ![TimerUser(t)] = @ \/ saved]
        /\ IF audio'[TimerUser(t)]
           THEN /\ tpc' = [tpc EXCEPT ![t] = "voice"]
                /\ UNCHANGED <<tcancel, tlist, tidx, tsum, blen>>
           ELSE Finish(t, "aborted")
    /\ UNCHANGED <<hvars, qvars, files, outcome, procs, admitted>>

\* Lines 128-129: send_voice has returned.
ProcessVoiceSent(t) ==
    /\ tpc[t] = "voice"
    /\ Quiet
    /\ outcome' = [outcome EXCEPT ![t] = "success"]
    /\ tpc' = [tpc EXCEPT ![t] = "sent"]
    /\ UNCHANGED <<hvars, qvars, tcancel, tlist, tidx, tsum, fvars, blen, procs, admitted>>

\* Lines 129-135: the confirmation is sent; the audio file is removed.
ProcessAudioRelease(t) ==
    /\ tpc[t] = "sent"
    /\ Quiet
    /\ audio' = [audio EXCEPT ![TimerUser(t)] = FALSE]
    /\ Finish(t, "done")
    /\ UNCHANGED <<hvars, qvars, files, outcome, procs, admitted>>

\* Line 137: the failure message has been sent.
ProcessFailureSent(t) ==
    /\ tpc[t] = "failing"
    /\ Quiet
    /\ outcome' = [outcome EXCEPT ![t] = "failure"]
    /\ Finish(t, "done")
    /\ UNCHANGED <<hvars, qvars, fvars, procs, admitted>>

\* An exception leaves the coroutine at the await it is suspended at: the
\* finally of lines 110-118 runs for the awaits of lines 97-109, the finally
\* of lines 130-135 for those of lines 128-129.
Unwind(t) ==
    /\ Finish(t, "aborted")
    /\ IF tpc[t] \in {"processing", "extracting", "summarizing", "notext"}
       THEN Cleanup(t) /\ UNCHANGED audio
       ELSE /\ UNCHANGED <<files, user_pdf_queues, user_timers>>
            /\ audio' = IF tpc[t] \in {"voice", "sent"}
                        THEN [audio EXCEPT ![TimerUser(t)] = FALSE] ELSE audio
    /\ UNCHANGED <<hvars, heap, outcome, procs, admitted>>

\* Lines 171-172: CancelledError is thrown into the task at its await.
TaskCancelled(t) ==
    /\ Live(t)
    /\ tcancel[t]
    /\ Unwind(t)

\* A send_message or send_voice call of the run raises; timer() does not
\* catch it.
TaskError(t) ==
    /\ Live(t)
    /\ tpc[t] # "sleep"
    /\ Quiet
    /\ Unwind(t)

\* ------------------------------------------------------------------- Next
Next ==
    \/ \E r \in Reqs : HandleDocumentCheck(r)
    \/ \E r \in Reqs : HandleDocumentReject(r)
    \/ \E r \in Reqs : HandleDocumentAppend(r)
    \/ \E r \in Reqs : HandleDocumentFetchError(r)
    \/ \E r \in Reqs : HandleDocumentArm(r)
    \/ \E r \in Reqs : HandleDocumentReplyError(r)
    \/ \E r \in Timers : webhook(r)
    \/ \E t \in Timers : TimerFire(t)
    \/ \E t \in Timers : ProcessLoop(t)
    \/ \E t \in Timers : ProcessExtract(t)
    \/ \E t \in Timers : ProcessSummarize(t)
    \/ \E t \in Timers : ProcessSynthesize(t)
    \/ \E t \in Timers : ProcessVoiceSent(t)
    \/ \E t \in Timers : ProcessAudioRelease(t)
    \/ \E t \in Timers : ProcessFailureSent(t)
    \/ \E t \in Timers : TaskCancelled(t)
    \/ \E t \in Timers : TaskError(t)

Spec == Init /\ [][Next]_vars

\* The same program when no transport call raises and no event loop is torn
\* down while a timer task is pending: the handlers and the timer tasks on
\* one event loop that keeps running.
StepLoop ==
    \/ \E r \in Reqs : HandleDocumentCheck(r)
    \/ \E r \in Reqs : HandleDocumentReject(r)
    \/ \E r \in Reqs : HandleDocumentAppend(r)
    \/ \E r \in Reqs : HandleDocumentArm(r)
    \/ \E t \in Timers : TimerFire(t)
    \/ \E t \in Timers : ProcessLoop(t)
    \/ \E t \in Timers : ProcessExtract(t)
    \/ \E t \in Timers : ProcessSummarize(t)
    \/ \E t \in Timers : ProcessSynthesize(t)
    \/ \E t \in Timers : ProcessVoiceSent(t)
    \/ \E t \in Timers : ProcessAudioRelease(t)
    \/ \E t \in Timers : ProcessFailureSent(t)
    \/ \E t \in Timers : TaskCancelled(t)

SpecLoop == Init /\ [][StepLoop]_vars

\* ------------------------------------------------------------ vocabulary
TryPcs == {"processing", "extracting", "summarizing", "notext"}
AudioPcs == {"generating", "voice", "sent"}
Armed == {t \in Timers : tpc[t] # "none"}
Admitted(u) == Range(admitted[u])
AllAdmitted == UNION {Admitted(u) : u \in Users}
\* The quiet-period timers of user u that are still waiting.
Waiting(u) == {t \in Armed : TimerUser(t) = u /\ tpc[t] = "sleep" /\ ~tcancel[t]}
\* The runs of user u that are executing.
Running(u) == {t \in Armed : TimerUser(t) = u /\ tpc[t] \in TryPcs \cup AudioPcs \cup {"failing"}}
\* No timer of user u has fired yet: the session is in its first accumulation.
NeverFired(u) ==
    /\ user_pdf_queues[u] = u
    /\ \A t \in Armed : TimerUser(t) = u => tpc[t] \in {"sleep", "aborted"}
\* No handler of user u is between its append and its timer re-arm.
Settled(u) == \A r \in Reqs : hpc[r] = "reply" => req[r].user # u

\* ---------------------------------------------------------------- claims
\* C1: no item is handed to the batch processing more than once; two runs
\* never iterate over the same item.
C1_NoDoubleProcessing == \A i \in Items : procs[i] <= 1

C3_Snapshot == \A t \in Timers : tpc[t] \in TryPcs => tidx[t] <= blen[t]

\* C4: no admitted item has its storage deleted without ever having been
\* handed to a batch run.
C4_NoLostItem == \A i \in AllAdmitted : i \notin files => procs[i] >= 1

\* C5: when a run leaves the try block of process_user_pdfs, by its end, by
\* an exception or by a cancellation, the storage of every item of the
\* captured batch has been released; a released file is never there again.
C5_CleanupTotality ==
    /\ [][\A t \in Timers :
            (tpc[t] \in TryPcs /\ tpc'[t] \notin TryPcs)
            => \A k \in 1..blen[t] : heap[tlist[t]][k] \notin files']_vars
    /\ [][\A i \in AllAdmitted : i \notin files => i \notin files']_vars

C5_Witness ==
    \E t \in Timers :
        /\ tpc[t] = "aborted"
        /\ user_pdf_queues[TimerUser(t)] = FreshList(t)
        /\ admitted[TimerUser(t)] # <<>>
        /\ Admitted(TimerUser(t)) \cap files = {}

\* C6: the pending list of a user never holds more than MAX_PDFS_PER_USER
\* items.
C6_Capacity == \A u \in Users : Len(heap[user_pdf_queues[u]]) <= 5

\* C7: a submission that is not a PDF, is larger than 10 MB, or arrives when
\* the user's pending list holds 5 items is rejected; neither the check nor
\* the reply changes a queue, a timer or a file, and the item is never
\* queued.
C7_Refused(r) ==
    \/ ~req'[r].doc.pdf
    \/ req'[r].doc.size > 10 * 1024 * 1024
    \/ Len(heap[user_pdf_queues[req'[r].user]]) = 5
C7_RejectionNoSideEffects ==
    /\ [][\A r \in Reqs :
            /\ (hpc[r] = "new" /\ hpc'[r] # "new" /\ C7_Refused(r))
                => (hpc'[r] = "reject" /\ UNCHANGED <<qvars, tvars, fvars, admitted>>)
            /\ (hpc[r] = "reject" /\ hpc'[r] # "reject")
                => (hpc'[r] = "rejected" /\ UNCHANGED <<qvars, tvars, fvars, admitted>>)]_vars
    /\ [](\A r \in Reqs : hpc[r] \in {"reject", "rejected"}
            => r \notin AllAdmitted /\ r \notin files /\ tpc[r] = "none")

C7_Witness ==
    \E r \in Reqs :
        /\ hpc[r] = "rejected"
        /\ req[r].doc.pdf /\ req[r].doc.size <= SizeLimit
        /\ Len(heap[user_pdf_queues[req[r].user]]) = 5
        /\ Waiting(req[r].user) # {}

\* C8: a user never has two quiet-period timers waiting at the same time.
C8_SingleTimer == \A u \in Users : Cardinality(Waiting(u)) <= 1

\* C9: the list of a user, and the list a run of the user iterates over,
\* hold only items that user submitted; a step of a handler or of a timer
\* task of one user leaves the queue, the timer, the files and the
\* processing record of every other user alone.
C9_Untouched(u) ==
    /\ user_pdf_queues'[u] = user_pdf_queues[u]
    /\ heap'[user_pdf_queues[u]] = heap[user_pdf_queues[u]]
    /\ user_timers'[u] = user_timers[u]
    /\ admitted'[u] = admitted[u]
    /\ \A i \in Admitted(u) : (i \in files' <=> i \in files) /\ procs'[i] = procs[i]
C9_Isolation ==
    /\ [](\A u \in Users :
            /\ \A i \in Range(heap[user_pdf_queues[u]]) : ItemUser(i) = u
            /\ \A t \in Running(u) : \A i \in Range(heap[tlist[t]]) : ItemUser(i) = u)
    /\ [][\A u \in Users :
            /\ \A r \in Reqs : (hpc'[r] # hpc[r] /\ req'[r].user # u) => C9_Untouched(u)
            /\ \A t \in Timers : (tpc'[t] # tpc[t] /\ req' = req /\ TimerUser(t) # u)
                                    => C9_Untouched(u)]_vars

C9_Witness ==
    \E t \in Reqs :
        /\ tpc[t] \in AudioPcs
        /\ \E u \in Users :
            /\ u # TimerUser(t)
            /\ heap[user_pdf_queues[u]] # <<>>
            /\ Admitted(u) \subseteq files
            /\ \A i \in Admitted(u) : procs[i] = 0

\* C10: a run none of whose items yielded summary text (each failed
\* extraction or summarization) does not synthesize speech: it sends the
\* failure message instead.
C10_WholeBatchFailure ==
    \A t \in Timers :
        tpc[t] \in {"voice", "sent"}
        => \E k \in 1..Len(tsum[t]) : Len(tsum[t][k]) > 1

\* C11: an item that fails extraction does not abort the run: the run goes
\* on to the next item with the summaries collected so far, each summarized
\* item adds its summary at the end, the run takes the success branch as
\* soon as one item was summarized, the failure message is sent only by a
\* run without any summary, and the storage of every item of the list is
\* released when the loop is over.
C11_Current(t) == heap[tlist[t]][tidx[t]]
C11_PartialFailure ==
    /\ [][\A t \in Timers :
            /\ (tpc[t] = "extracting" /\ tpc'[t] \notin {"extracting", "aborted"})
                => /\ tpc'[t] = IF extract_text_from_pdf(C11_Current(t), files)
                                THEN "summarizing" ELSE "notext"
                   /\ tsum'[t] = tsum[t]
                   /\ files' = files
            /\ (tpc[t] = "notext" /\ tpc'[t] \notin {"notext", "aborted"})
                => /\ tsum'[t] = tsum[t]
                   /\ tpc'[t] \in {"extracting", "generating", "failing"}
            /\ (tpc[t] = "summarizing" /\ tpc'[t] \notin {"summarizing", "aborted"})
                => /\ tsum'[t] = Append(tsum[t], summarize_text(C11_Current(t)))
                   /\ tpc'[t] \in {"extracting", "generating"}
            /\ (tpc[t] \in TryPcs /\ tpc'[t] \in {"generating", "failing"})
                => /\ (tpc'[t] = "generating") <=> (tsum'[t] # <<>>)
                   /\ Range(heap[tlist[t]]) \cap files' = {}
            /\ (outcome'[t] # outcome[t])
                => outcome'[t] = IF tsum[t] # <<>> THEN "success" ELSE "failure"]_vars
    /\ [](\A t \in Timers : tpc[t] = "failing" => tsum[t] = <<>>)

C11_Witness ==
    \E t \in Reqs :
        /\ tpc[t] = "sent"
        /\ outcome[t] = "success"
        /\ Len(heap[tlist[t]]) = 2
        /\ LET a == heap[tlist[t]][1]
               b == heap[tlist[t]][2] IN
            /\ ItemDoc(a).content = "ok"
            /\ ItemDoc(b).content = "notext"
            /\ tsum[t] = <<summarize_text(a)>>
            /\ procs[a] = 1 /\ procs[b] = 1
            /\ {a, b} \cap files = {}

\* C12: a run that has started ends with exactly one outcome notification
\* sent, the voice message or the failure message, whatever is admitted for
\* the user during the run.
C12_OneOutcome ==
    [][\A t \in Timers :
        (tpc[t] \in TryPcs \cup AudioPcs \cup {"failing"} /\ tpc'[t] \in {"done", "aborted"})
        => outcome'[t] \in {"success", "failure"}]_vars

\* C13: the cancel of a handler that re-arms the user's timer hits only a
\* timer task that is still in its sleep, never one that has started its
\* batch run.
C13_RunNotCancelled ==
    [][\A r \in Reqs : \A t \in Timers :
        (hpc[r] = "reply" /\ tpc'[r] = "sleep" /\ ~tcancel[t] /\ tcancel'[t])
        => tpc[t] = "sleep"]_vars

\* C14: while a handler of a user is between its append and its timer
\* re-arm, no timer of that user fires (and captures the list) and no other
\* handler of that user appends.
C14_AppendArmAtomic ==
    [][\A r \in Reqs :
        (hpc[r] = "reply" /\ hpc'[r] = "reply")
        => /\ \A t \in Timers :
                TimerUser(t) = req[r].user => ~(tpc[t] = "sleep" /\ tpc'[t] = "processing")
           /\ \A q \in Reqs :
                req'[q].user = req[r].user => ~(hpc[q] = "fetch" /\ hpc'[q] = "reply")]_vars

\* C15: a timer whose sleep ends while the user's pending list is empty
\* starts no batch run: it sends no "Processing" message, and no run over
\* an empty batch sends the failure message.
C15_EmptyFireNoRun ==
    [][\A t \in Timers :
        /\ (tpc[t] = "sleep" /\ heap[user_pdf_queues[TimerUser(t)]] = <<>>)
            => tpc'[t] \in {"sleep", "done", "aborted"}
        /\ (outcome[t] = "none" /\ outcome'[t] = "failure") => blen[t] > 0]_vars

\* C16: while a run of a user is executing, a valid submission of that user
\* is refused only when MAX_PDFS_PER_USER items have been appended since the
\* run captured its list: the items of the batch in flight do not count.
C16_InFlightNotCounted ==
    [][\A r \in Reqs :
        LET u == req'[r].user IN
        (/\ hpc[r] = "new" /\ hpc'[r] = "reject"
         /\ req'[r].doc.pdf /\ req'[r].doc.size <= SizeLimit)
        => \A t \in Running(u) :
              tlist[t] = user_pdf_queues[u]
              => Len(heap[user_pdf_queues[u]]) - blen[t] >= MAX_PDFS_PER_USER]_vars

\* C17: a quiet-period timer that is waiting is cancelled only by a handler
\* of the same user that arms a new timer: not by the end of the event loop
\* of the request that armed it, nor by anything another user does.
C17_OnlyRearmCancels ==
    [][\A t \in Timers :
        (tpc[t] = "sleep" /\ ~tcancel[t] /\ tcancel'[t])
        => \E r \in Reqs :
            /\ hpc[r] = "reply" /\ hpc'[r] = "done" /\ tpc'[r] = "sleep"
            /\ req[r].user = TimerUser(t)]_vars

\* C18: a run that holds synthesized audio releases it exactly once when it
\* leaves, whichever way it leaves: the audio file is there until the run's
\* own release, and that release removes it.
C18_AudioReleasedOnce ==
    /\ [](\A t \in Timers : tpc[t] \in {"voice", "sent"} => audio[TimerUser(t)])
    /\ [][\A t \in Timers :
            (tpc[t] \in {"voice", "sent"} /\ tpc'[t] \in {"done", "aborted"})
            => audio[TimerUser(t)] /\ ~audio'[TimerUser(t)]]_vars

\* C19: the cleanup of a run removes the user's entry of user_timers only
\* when the entry is the task of this run, so every timer of a user that is
\* still waiting is the one user_timers holds for the user.
C19_PopOwnHandle ==
    /\ [][\A t \in Timers :
            (tpc[t] \in TryPcs /\ tpc'[t] \notin TryPcs /\ user_timers[TimerUser(t)] # t)
            => user_timers'[TimerUser(t)] = user_timers[TimerUser(t)]]_vars
    /\ [](\A u \in Users : \A t \in Waiting(u) : user_timers[u] = t)

\* C20: two runs of one user are never both between the synthesis of the
\* audio file and its release: no run writes or removes the user's audio
\* file while another run of the user is delivering it.
C20_AudioExclusive ==
    \A u \in Users :
        Cardinality({t \in Running(u) : tpc[t] \in {"voice", "sent"}}) <= 1

====
